---- MODULE Spec2Model ----
(***************************************************************************)
(* Offset-mapping engine of nlstruct (nlstruct/core/text.py).              *)
(*                                                                         *)
(* A DeltaCollection is a triple of parallel integer arrays (begins, ends, *)
(* deltas).  Positions are 0-based character offsets as in the Python      *)
(* code; sequences are 1-based as usual in TLA+, so text[i] of the code is *)
(* text[i+1] here.  A call that raises in Python yields a value whose err  *)
(* field is TRUE.                                                          *)
(***************************************************************************)
EXTENDS Integers, Sequences, FiniteSets, TLC

(***************************************************************************)
(* Generic array helpers (numpy / python list primitives).                 *)
(***************************************************************************)
RECURSIVE SumTo(_, _)
\* sum of f[1..n]   (ndarray.sum over one row / pandas "sum" aggregation)
SumTo(f, n) == IF n = 0 THEN 0 ELSE f[n] + SumTo(f, n - 1)

\* text[lo:hi] with python slice bounds 0 <= lo <= hi <= len(text)
Slice(s, lo, hi) == SubSeq(s, lo + 1, hi)

\* the row indexes where a boolean row is TRUE
TrueIdx(row) == {i \in 1..Len(row) : row[i]}

\* ndarray.argmax of a boolean row that holds at least one TRUE: first TRUE
ArgMax(row) == CHOOSE i \in TrueIdx(row) : \A j \in TrueIdx(row) : i <= j

(***************************************************************************)
(* class DeltaCollection                                                   *)
(***************************************************************************)
DeltaCollection(begins, ends, deltas) ==
    [begins |-> begins, ends |-> ends, deltas |-> deltas]

EmptyCollection == DeltaCollection(<<>>, <<>>, <<>>)

Raised == [err |-> TRUE, val |-> <<>>]
Returned(v) == [err |-> FALSE, val |-> v]

\* to_add of one position before the snap: deltas of intervals with end <= p
BaseShift(ends, deltas, p) ==
    SumTo([i \in 1..Len(ends) |-> IF p >= ends[i] THEN deltas[i] ELSE 0],
          Len(ends))

\* the row of `between` for one position
Between(begins, ends, p) ==
    [i \in 1..Len(begins) |-> begins[i] < p /\ p < ends[i]]

\* DeltaCollection.apply for one element of `positions`
ApplyOne(self, p, side) ==
    LET between == Between(self.begins, self.ends, p)
        to_add  == BaseShift(self.ends, self.deltas, p)
        snap    == IF TrueIdx(between) = {} THEN 0
                   ELSE LET i == ArgMax(between)
                        IN  IF side = "right"
                            THEN self.ends[i] - p + self.deltas[i]
                            ELSE IF side = "left"
                            THEN self.begins[i] - p
                            ELSE 0
    IN  p + to_add + snap

\* DeltaCollection.apply(positions, side); positions is a 1-d array.
\* With no interval, between[between_mask] has shape (0, 0) and
\* argmax(axis=1) over the zero-length axis raises ValueError.
Apply(self, positions, side) ==
    IF Len(self.begins) = 0 THEN Raised
    ELSE Returned([k \in 1..Len(positions) |-> ApplyOne(self, positions[k], side)])

\* DeltaCollection.unapply for one element, given the mapped boundaries
UnapplyOne(self, begins, ends, p, side) ==
    LET between   == Between(begins, ends, p)
        to_remove == 0 - BaseShift(ends, self.deltas, p)
        snap      == IF TrueIdx(between) = {} THEN 0
                     ELSE LET i == ArgMax(between)
                          IN  IF side = "right"
                              THEN ends[i] - p - self.deltas[i]
                              ELSE IF side = "left"
                              THEN begins[i] - p
                              ELSE 0
    IN  p + to_remove + snap

\* DeltaCollection.unapply(positions, side)
Unapply(self, positions, side) ==
    LET begins == Apply(self, self.begins, "left")
        ends   == Apply(self, self.ends, "right")
    IN  IF begins.err \/ ends.err THEN Raised
        ELSE Returned([k \in 1..Len(positions) |->
                          UnapplyOne(self, begins.val, ends.val, positions[k], side)])

\* key order of np.lexsort((new_ends, new_begins)): begins first, then ends
LexLess(b1, e1, b2, e2) == b1 < b2 \/ (b1 = b2 /\ e1 < e2)

\* np.lexsort: the stable permutation that sorts by (begin, end);
\* Sorter(bs, es)[k] is the index of the element placed at rank k.
Sorter(bs, es) ==
    LET n == Len(bs)
        rank == [i \in 1..n |->
                    Cardinality({j \in 1..n :
                        \/ LexLess(bs[j], es[j], bs[i], es[i])
                        \/ (bs[j] = bs[i] /\ es[j] = es[i] /\ j < i)}) + 1]
    IN  [k \in 1..n |-> CHOOSE i \in 1..n : rank[i] = k]

\* DeltaCollection.__add__(self, other): self is applied first, then other
Add(self, other) ==
    IF Len(self.begins) = 0 THEN Returned(other)
    ELSE IF Len(other.begins) = 0 THEN Returned(self)
    ELSE LET begins == Unapply(self, other.begins, "left")
             ends   == Unapply(self, other.ends, "right")
         IN  IF begins.err \/ ends.err THEN Raised
             ELSE LET new_begins == begins.val \o self.begins
                      new_ends   == ends.val \o self.ends
                      new_deltas == other.deltas \o self.deltas
                      sorter     == Sorter(new_begins, new_ends)
                      n          == Len(sorter)
                  IN  Returned(DeltaCollection(
                          [k \in 1..n |-> new_begins[sorter[k]]],
                          [k \in 1..n |-> new_ends[sorter[k]]],
                          [k \in 1..n |-> new_deltas[sorter[k]]]))

\* np.roll(a, 1): the last element comes first
Roll(a) == [i \in 1..Len(a) |-> IF i = 1 THEN a[Len(a)] ELSE a[i - 1]]

\* DeltaCollection.from_absolute(begins, ends, deltas); on an empty array
\* the assignment shift[0] = 0 raises IndexError
from_absolute(begins, ends, deltas) ==
    IF Len(deltas) = 0 THEN Raised
    ELSE LET shift == [Roll(deltas) EXCEPT ![1] = 0]
         IN  Returned(DeltaCollection(begins, ends,
                 [i \in 1..Len(deltas) |-> deltas[i] - shift[i]]))

(***************************************************************************)
(* Texts, patterns and replacements.                                       *)
(*                                                                         *)
(* A text is a sequence of one-character strings.  A pattern is a sequence *)
(* of elements, each a literal character or the wildcard "."; with         *)
(* grouped = TRUE every element is its own capturing group, e.g.           *)
(* <<".", "b">> stands for the regular expression (.)(b), and with         *)
(* grouped = FALSE for .b  (no capturing group).  The empty sequence is    *)
(* the empty pattern, which matches the empty string at every offset.      *)
(* A replacement is a python string: a back-reference \1 is the two        *)
(* characters "\\" and "1".                                                *)
(***************************************************************************)
Digits == <<"0", "1", "2", "3", "4", "5", "6", "7", "8", "9">>

IsDigit(c) == \E d \in 1..Len(Digits) : Digits[d] = c

DigitValue(c) == (CHOOSE d \in 1..Len(Digits) : Digits[d] = c) - 1

RECURSIVE IntOf(_)
\* int(s) of a non-empty string of digits
IntOf(s) ==
    IF Len(s) = 0 THEN 0
    ELSE IntOf(SubSeq(s, 1, Len(s) - 1)) * Len(Digits) + DigitValue(s[Len(s)])

RECURSIVE StrOf(_)
\* str(n) of a natural number, as a sequence of characters
StrOf(n) ==
    IF n < Len(Digits) THEN <<Digits[n + 1]>>
    ELSE StrOf(n \div Len(Digits)) \o <<Digits[(n % Len(Digits)) + 1]>>

RECURSIVE DigitRun(_, _)
\* length of the maximal run of digits of s that starts at 1-based index i
DigitRun(s, i) ==
    IF i <= Len(s) /\ IsDigit(s[i]) THEN 1 + DigitRun(s, i + 1) ELSE 0

RECURSIVE FindRefs(_, _)
\* re.findall(r"\\([0-9]+)", replacement), scanning from 1-based index i
FindRefs(replacement, i) ==
    IF i > Len(replacement) THEN <<>>
    ELSE IF replacement[i] = "\\" /\ DigitRun(replacement, i + 1) > 0
    THEN LET n == DigitRun(replacement, i + 1)
         IN  <<SubSeq(replacement, i + 1, i + n)>> \o FindRefs(replacement, i + n + 1)
    ELSE FindRefs(replacement, i + 1)

\* needed_groups = [int(i) for i in re.findall(...)]
NeededGroups(replacement) ==
    LET found == FindRefs(replacement, 1)
    IN  [k \in 1..Len(found) |-> IntOf(found[k])]

RECURSIVE StrReplace(_, _, _)
\* str.replace(old, new) for a non-empty old: leftmost, non-overlapping
StrReplace(s, old, new) ==
    IF Len(s) < Len(old) THEN s
    ELSE IF SubSeq(s, 1, Len(old)) = old
    THEN new \o StrReplace(SubSeq(s, Len(old) + 1, Len(s)), old, new)
    ELSE <<s[1]>> \o StrReplace(SubSeq(s, 2, Len(s)), old, new)

RECURSIVE GroupsLoop(_, _, _)
\* the loop of make_str_from_groups, from the i-th group (1-based) on:
\* enumerate() index i-1 replaces the text "\<i>" by groups[i]
GroupsLoop(replacement, groups, i) ==
    IF i > Len(groups) THEN replacement
    ELSE GroupsLoop(StrReplace(replacement, <<"\\">> \o StrOf(i), groups[i]),
                    groups, i + 1)

make_str_from_groups(replacement, groups) == GroupsLoop(replacement, groups, 1)

\* does the pattern match text[pos : pos + len(pattern)] ?
MatchAt(pattern, text, pos) ==
    /\ pos + Len(pattern.elems) <= Len(text)
    /\ \A k \in 1..Len(pattern.elems) :
          pattern.elems[k] = "." \/ pattern.elems[k] = text[pos + k]

RECURSIVE Scan(_, _, _)
\* the matches re.finditer yields from offset pos on, left to right
Scan(pattern, text, pos) ==
    IF pos > Len(text) THEN <<>>
    ELSE IF MatchAt(pattern, text, pos)
    THEN <<[start |-> pos, end |-> pos + Len(pattern.elems)]>>
         \o Scan(pattern, text,
                 IF Len(pattern.elems) = 0 THEN pos + 1 ELSE pos + Len(pattern.elems))
    ELSE Scan(pattern, text, pos + 1)

\* list(re.finditer(pattern, text)) : non-overlapping matches, left to right
FindIter(pattern, text) == Scan(pattern, text, 0)

\* number of capturing groups of the pattern
NGroups(pattern) == IF pattern.grouped THEN Len(pattern.elems) ELSE 0

\* match.group(i) raises IndexError ("no such group") for these i
NoSuchGroup(pattern, needed_groups) ==
    \E k \in 1..Len(needed_groups) : needed_groups[k] > NGroups(pattern)

\* match.group(i) on the string the match was found in
MatchGroup(text, match, i) ==
    IF i = 0 THEN Slice(text, match.start, match.end)
    ELSE <<text[match.start + i]>>

\* middle = make_str_from_groups(replacement, [match.group(i) for i in needed_groups])
Middle(replacement, source, match) ==
    LET needed_groups == NeededGroups(replacement)
    IN  make_str_from_groups(replacement,
            [g \in 1..Len(needed_groups) |->
                MatchGroup(source, match, needed_groups[g])])

\* text[:start] + middle + text[end:]
SpliceKeepingMatch(text, start, end, middle) ==
    Slice(text, 0, start) \o middle \o Slice(text, start, Len(text))

Splice(text, start, end, middle) ==
    Slice(text, 0, start) \o middle \o Slice(text, end, Len(text))

RECURSIVE SubLoop(_, _, _, _, _, _)
\* the loop of regex_sub_with_spans over reversed(matches): k is the index
\* (in left-to-right order) of the match handled next, source the string
\* the matches were found in, acc.text the string rewritten so far.
SubLoop(pattern, replacement, source, matches, k, acc) ==
    IF k = 0 THEN acc
    ELSE IF NoSuchGroup(pattern, NeededGroups(replacement))
    THEN [acc EXCEPT !.err = TRUE]
    ELSE LET match  == matches[k]
             middle == Middle(replacement, source, match)
             start  == match.start
             end    == match.end
         IN  SubLoop(pattern, replacement, source, matches, k - 1,
                [err    |-> FALSE,
                 text   |-> Splice(acc.text, start, end, middle),
                 begins |-> Append(acc.begins, start),
                 ends   |-> Append(acc.ends, end),
                 deltas |-> Append(acc.deltas, Len(middle) - end + start)])

\* regex_sub_with_spans(pattern, replacement, text) -> (text, DeltaCollection)
regex_sub_with_spans(pattern, replacement, text) ==
    LET matches == FindIter(pattern, text)
        res == SubLoop(pattern, replacement, text, matches, Len(matches),
                       [err |-> FALSE, text |-> text,
                        begins |-> <<>>, ends |-> <<>>, deltas |-> <<>>])
    IN  [err    |-> res.err,
         text   |-> res.text,
         deltas |-> DeltaCollection(res.begins, res.ends, res.deltas)]

(***************************************************************************)
(* run_unidecode.  A character is a one-element string; the characters     *)
(* outside ASCII are written by their code point.                          *)
(***************************************************************************)
\* unidecode(char): "a" is kept, U+00E9 (e acute) gives "e", U+00E6 (ae
\* ligature) gives "ae", and U+E000 (private use, no transliteration) gives ""
unidecode(char) ==
    CASE char = "U+00E9" -> <<"e">>
      [] char = "U+00E6" -> <<"a", "e">>
      [] char = "U+E000" -> <<>>
      [] OTHER -> <<char>>

RECURSIVE UnidecodeLoop(_, _, _)
\* the loop of run_unidecode from the character of index i (0-based) on
UnidecodeLoop(text, i, acc) ==
    IF i >= Len(text) THEN acc
    ELSE LET old_char == <<text[i + 1]>>
             new_char == unidecode(text[i + 1])
             differs  == Len(old_char) # Len(new_char)
         IN  UnidecodeLoop(text, i + 1,
                [new_text |-> acc.new_text \o new_char,
                 begins   |-> IF differs THEN Append(acc.begins, i)
                                         ELSE acc.begins,
                 ends     |-> IF differs THEN Append(acc.ends, i + 1)
                                         ELSE acc.ends,
                 deltas   |-> IF differs THEN Append(acc.deltas, Len(new_char) - 1)
                                         ELSE acc.deltas])

\* run_unidecode(text) -> (new_text, DeltaCollection)
run_unidecode(text) ==
    LET res == UnidecodeLoop(text, 0,
                   [new_text |-> <<>>, begins |-> <<>>, ends |-> <<>>,
                    deltas |-> <<>>])
    IN  [text |-> res.new_text,
         deltas |-> DeltaCollection(res.begins, res.ends, res.deltas)]

(***************************************************************************)
(* Batch position transformer: apply_deltas / reverse_deltas.              *)
(*                                                                         *)
(* A table is a sequence of rows (records).  A span row has the fields     *)
(* doc, begin, end; a delta row has doc, begin, end, delta.  The row at    *)
(* index i carries _id_col = i.  A cell of a merged frame is a number or   *)
(* NaN: [nan |-> FALSE, v |-> n] or NaN below.                             *)
(***************************************************************************)
Num(n) == [nan |-> FALSE, v |-> n]

NaN == [nan |-> TRUE, v |-> 0]

\* bool * number, a float product: anything times NaN is NaN
Times(flag, x) == IF x.nan THEN NaN ELSE Num(IF flag THEN x.v ELSE 0)

\* x <= p and x < p, p < x on a cell: comparisons with NaN are False
CellLe(x, p) == ~x.nan /\ x.v <= p
CellLt(x, p) == ~x.nan /\ x.v < p
CellGt(x, p) == ~x.nan /\ p < x.v

\* x + y, x - y on cells
CellAdd(x, y) == IF x.nan \/ y.nan THEN NaN ELSE Num(x.v + y.v)
CellSub(x, y) == IF x.nan \/ y.nan THEN NaN ELSE Num(x.v - y.v)

\* the merged rows of one left row with the right rows of its group
MergeRow(left, i, right, how) ==
    LET hits == SelectSeq(right, LAMBDA r : r.doc = left[i].doc)
        row(b, e, d) == [id |-> i, begin_pos |-> left[i].begin,
                         end_pos |-> left[i].end,
                         begin_delta |-> b, end_delta |-> e, delta |-> d]
    IN  IF Len(hits) = 0
        THEN IF how = "left" THEN <<row(NaN, NaN, NaN)>> ELSE <<>>
        ELSE [j \in 1..Len(hits) |->
                 row(Num(hits[j].begin), Num(hits[j].end), Num(hits[j].delta))]

RECURSIVE MergeFrom(_, _, _, _)
MergeFrom(left, i, right, how) ==
    IF i > Len(left) THEN <<>>
    ELSE MergeRow(left, i, right, how) \o MergeFrom(left, i + 1, right, how)

\* merge_with_spans(left, right, on=on, how=how) without a span policy:
\* the join of the two tables on the group key, in the order of left
merge_with_spans(left, right, how) == MergeFrom(left, 1, right, how)

\* the column sort_values orders by: the interval's begin for side left,
\* its end otherwise
SortKey(row, side) == IF side = "left" THEN row.begin_delta ELSE row.end_delta

\* DataFrame.sort_values(['_id_col', key]) within one _id_col: stable
SortValues(rows, side) ==
    LET n == Len(rows)
        rank == [i \in 1..n |->
                    Cardinality({j \in 1..n :
                        \/ SortKey(rows[j], side).v < SortKey(rows[i], side).v
                        \/ (SortKey(rows[j], side).v = SortKey(rows[i], side).v
                            /\ j < i)}) + 1]
    IN  [k \in 1..n |-> rows[CHOOSE i \in 1..n : rank[i] = k]]

\* groupby aggregation "sum": NaN cells are skipped
AggSum(cells) ==
    SumTo([i \in 1..Len(cells) |-> IF cells[i].nan THEN 0 ELSE cells[i].v],
          Len(cells))

\* groupby aggregation "first" / "last": the first / last cell that is not NaN
AggFirst(cells) ==
    LET ok == {i \in 1..Len(cells) : ~cells[i].nan}
    IN  IF ok = {} THEN NaN ELSE cells[CHOOSE i \in ok : \A j \in ok : i <= j]

AggLast(cells) ==
    LET ok == {i \in 1..Len(cells) : ~cells[i].nan}
    IN  IF ok = {} THEN NaN ELSE cells[CHOOSE i \in ok : \A j \in ok : i >= j]

\* Series.add(other, fill_value=0) at one index: `there` tells whether
\* other has the index; a missing or NaN operand counts as 0
AddDroppingMissing(p, there, x) == IF there /\ ~x.nan THEN Num(p + x.v) ELSE NaN

AddFillValue(p, there, x) == IF there /\ ~x.nan THEN Num(p + x.v) ELSE Num(p)

\* the `shift` and `between_magnet` columns of apply_deltas for one merged
\* row, the position column holding p
ShiftOfStrict(row, p) == Times(CellLt(row.end_delta, p), row.delta)

ShiftOf(row, p) == Times(CellLe(row.end_delta, p), row.delta)

MagnetOf(row, p, side) ==
    LET between_magnet == CellLt(row.begin_delta, p) /\ CellGt(row.end_delta, p)
    IN  IF side = "left"
        THEN Times(between_magnet, CellSub(row.begin_delta, Num(p)))
        ELSE IF side = "right"
        THEN Times(between_magnet,
                   CellSub(CellAdd(row.end_delta, row.delta), Num(p)))
        ELSE Num(IF between_magnet THEN 1 ELSE 0)

\* the same columns in reverse_deltas
ReverseShiftOf(row, p) ==
    Times(CellLe(row.end_delta, p), CellSub(Num(0), row.delta))

ReverseMagnetOf(row, p, side) ==
    LET between_magnet == CellLt(row.begin_delta, p) /\ CellGt(row.end_delta, p)
    IN  IF side = "left"
        THEN Times(between_magnet, CellSub(row.begin_delta, Num(p)))
        ELSE IF side = "right"
        THEN Times(between_magnet,
                   CellSub(CellSub(row.end_delta, row.delta), Num(p)))
        ELSE Num(IF between_magnet THEN 1 ELSE 0)

\* one pass of the loop over position_columns for the row _id_col = i:
\* sort, group, aggregate and add to the column value p; reverse tells
\* reverse_deltas from apply_deltas
Remap(merged, i, p, side, reverse) ==
    LET mine   == SelectSeq(merged, LAMBDA r : r.id = i)
        sorted == SortValues(mine, side)
        shifts  == [k \in 1..Len(sorted) |->
                       IF reverse THEN ReverseShiftOf(sorted[k], p)
                                  ELSE ShiftOf(sorted[k], p)]
        magnets == [k \in 1..Len(sorted) |->
                       IF reverse THEN ReverseMagnetOf(sorted[k], p, side)
                                  ELSE MagnetOf(sorted[k], p, side)]
        tmp == CellAdd(Num(AggSum(shifts)),
                       IF side = "left" THEN AggFirst(magnets)
                                        ELSE AggLast(magnets))
    IN  AddFillValue(p, Len(mine) > 0, tmp)

DefaultColumns == [begin |-> "left", end |-> "right"]

\* apply_deltas(positions, deltas, on, position_columns): every other
\* column of positions passes through
apply_deltas(positions, deltas, position_columns) ==
    LET mention_deltas == merge_with_spans(positions, deltas, "inner")
    IN  [i \in 1..Len(positions) |->
            [positions[i] EXCEPT
                !.begin = Remap(mention_deltas, i, positions[i].begin,
                                position_columns.begin, FALSE).v,
                !.end   = Remap(mention_deltas, i, positions[i].end,
                                position_columns.end, FALSE).v]]

\* reverse_deltas(positions, deltas, on, position_columns)
reverse_deltas(positions, deltas, position_columns) ==
    LET mapped == apply_deltas(deltas, deltas, DefaultColumns)
        mention_deltas == merge_with_spans(positions, mapped, "left")
    IN  [i \in 1..Len(positions) |->
            [positions[i] EXCEPT
                !.begin = Remap(mention_deltas, i, positions[i].begin,
                                position_columns.begin, TRUE).v,
                !.end   = Remap(mention_deltas, i, positions[i].end,
                                position_columns.end, TRUE).v]]

(***************************************************************************)
(* Inputs of the model.                                                    *)
(***************************************************************************)
\* longest input text
MaxLen == 4

\* most pattern/replacement pairs given to regex_multisub_with_spans
MaxRules == 3

\* largest offset of the tables given to the batch transformer
MaxPos == 4

\* most intervals of one group of the delta table
MaxIntervals == 2

Alphabet == {"a", "b", "c"}

Sides == {"left", "right"}

RECURSIVE TextsOfLen(_)
TextsOfLen(n) ==
    IF n = 0 THEN {<<>>}
    ELSE {Append(t, c) : t \in TextsOfLen(n - 1), c \in Alphabet}

Texts == UNION {TextsOfLen(n) : n \in 0..MaxLen}

Pat(elems, grouped) == [elems |-> elems, grouped |-> grouped]

Rule(pattern, replacement) == [pattern |-> pattern, replacement |-> replacement]

\* the text and the rule of the single-substitution scenario
FooBarFoo == <<"f", "o", "o", " ", "b", "a", "r", " ", "f", "o", "o">>
FooRule == Rule(Pat(<<"f", "o", "o">>, FALSE), <<"X">>)

\* patterns: "", a, b, c, ab, (.), (a)(.), (.)(.)
Patterns ==
    {Pat(<<>>, FALSE), Pat(<<"a">>, FALSE), Pat(<<"b">>, FALSE),
     Pat(<<"c">>, FALSE), Pat(<<"a", "b">>, FALSE),
     Pat(<<".">>, TRUE), Pat(<<"a", ".">>, TRUE), Pat(<<".", ".">>, TRUE)}

\* replacements: "", a, bb, \1, \1\1, \2, \2\1
Replacements ==
    {<<>>, <<"a">>, <<"b", "b">>, <<"\\", "1">>, <<"\\", "1", "\\", "1">>,
     <<"\\", "2">>, <<"\\", "2", "\\", "1">>}

\* the intervals of a delta table: a range of 0..MaxPos that grows or shrinks
\* by one character, never by more than it holds
Intervals ==
    {iv \in [begin : 0..MaxPos, end : 0..MaxPos, delta : {-1, 1}] :
        iv.begin <= iv.end /\ iv.delta >= iv.begin - iv.end}

RECURSIVE CollectionsFrom(_, _)
\* the disjoint collections of at most n intervals at or after offset lo,
\* in ascending order
CollectionsFrom(lo, n) ==
    IF n = 0 THEN {<<>>}
    ELSE {<<>>} \cup
         UNION {{<<iv>> \o rest : rest \in CollectionsFrom(iv.end, n - 1)} :
                   iv \in {x \in Intervals : x.begin >= lo}}

Collections == CollectionsFrom(0, MaxIntervals)

\* the rows of the delta table for one document
RowsOf(doc, c) ==
    [i \in 1..Len(c) |-> [doc |-> doc, begin |-> c[i].begin,
                          end |-> c[i].end, delta |-> c[i].delta]]

\* the batch remap scenario: document d1, rows (0,3,-2) and (8,11,-2),
\* token span (8, 11)
ScenarioDeltas ==
    <<[doc |-> "d1", begin |-> 0, end |-> 3, delta |-> -2],
      [doc |-> "d1", begin |-> 8, end |-> 11, delta |-> -2]>>

ScenarioSpans == <<[doc |-> "d1", begin |-> 8, end |-> 11]>>

ColumnChoices == {DefaultColumns, [begin |-> "right", end |-> "left"]}

\* the rules a single regex_sub_with_spans call is given
SubRules ==
    {Rule(p, r) : p \in Patterns, r \in Replacements} \cup {FooRule}

\* the rules regex_multisub_with_spans is given: delete every a, every b,
\* every c; insert bb at every offset; rewrite every a into bb
MultiRules ==
    {Rule(Pat(<<"a">>, FALSE), <<>>), Rule(Pat(<<"b">>, FALSE), <<>>),
     Rule(Pat(<<"c">>, FALSE), <<>>), Rule(Pat(<<>>, FALSE), <<"b", "b">>),
     Rule(Pat(<<"a">>, FALSE), <<"b", "b">>)}

(***************************************************************************)
(* State.                                                                  *)
(*   original   the text the caller passed in                              *)
(*   text       the local `text` of regex_multisub_with_spans              *)
(*   deltas     the local `deltas`, the running DeltaCollection            *)
(*   rules      the pattern/replacement pairs consumed so far              *)
(*   steps      the new_deltas each of them returned                       *)
(*   touched    for each character of text, whether a rule produced it     *)
(*   clean      whether every match so far covered untouched text only     *)
(*   pc         "loop", "returned" or "raised"                             *)
(*   spans      the span table given to apply_deltas / reverse_deltas      *)
(*   dtable     the delta table                                            *)
(*   columns    position_columns: the side declared for begin and for end  *)
(*   out        the table the call returned                                *)
(*   call       "none", "apply_deltas" or "reverse_deltas"                 *)
(*   coll       the DeltaCollection a method is called on                  *)
(*   args       the arguments of a direct call, <<>> before the call       *)
(*   result     what the direct call returned, <<>> before the call        *)
(***************************************************************************)
VARIABLES original, text, deltas, rules, steps, touched, clean, pc,
          spans, dtable, columns, out, call, coll, args, result

vars == <<original, text, deltas, rules, steps, touched, clean, pc,
          spans, dtable, columns, out, call, coll, args, result>>

batchVars == <<spans, dtable, columns, out, call>>

textVars == <<original, text, deltas, rules, steps, touched, clean, pc>>

scalarVars == <<coll, args, result>>

RECURSIVE Retouch(_, _, _)
\* touched after the rewrite described by collection d, whose intervals
\* are stored right to left: the replaced ranges become touched
Retouch(flags, d, i) ==
    IF i > Len(d.begins) THEN flags
    ELSE Retouch(Slice(flags, 0, d.begins[i])
                 \o [k \in 1..(d.ends[i] - d.begins[i] + d.deltas[i]) |-> TRUE]
                 \o Slice(flags, d.ends[i], Len(flags)),
                 d, i + 1)

\* every character covered by a match is one no earlier rule produced
OnlyUntouched(flags, d) ==
    \A i \in 1..Len(d.begins) :
        \A k \in (d.begins[i] + 1)..d.ends[i] : ~flags[k]

TextInit(t) ==
    /\ original = t
    /\ text = t
    /\ deltas = EmptyCollection
    /\ rules = <<>>
    /\ steps = <<>>
    /\ touched = [k \in 1..Len(t) |-> FALSE]
    /\ clean = TRUE
    /\ pc = "loop"

NoBatch ==
    /\ spans = <<>>
    /\ dtable = <<>>
    /\ columns = DefaultColumns
    /\ out = <<>>
    /\ call = "none"

\* a span table with the same span in d1, d2 and d3, and a delta table
\* with a collection for d1, its first interval alone for d2, none for d3
BatchInit(c, b, e) ==
    /\ spans = <<[doc |-> "d1", begin |-> b, end |-> e],
                 [doc |-> "d2", begin |-> b, end |-> e],
                 [doc |-> "d3", begin |-> b, end |-> e]>>
    /\ dtable = RowsOf("d1", c)
                \o RowsOf("d2", IF Len(c) = 0 THEN <<>> ELSE <<c[1]>>)
    /\ columns = DefaultColumns
    /\ out = <<>>
    /\ call = "none"

\* no direct call of a DeltaCollection method or of run_unidecode
NoScalar ==
    /\ coll = EmptyCollection
    /\ args = <<>>
    /\ result = <<>>

ScenarioInit ==
    /\ spans = ScenarioSpans
    /\ dtable = ScenarioDeltas
    /\ columns = DefaultColumns
    /\ out = <<>>
    /\ call = "none"

\* out = apply_deltas(spans, dtable, on="doc", position_columns)
ApplyDeltasCall(position_columns) ==
    /\ call = "none"
    /\ call' = "apply_deltas"
    /\ columns' = position_columns
    /\ out' = apply_deltas(spans, dtable, position_columns)
    /\ UNCHANGED <<spans, dtable, textVars, scalarVars>>

\* out = reverse_deltas(spans, dtable, on="doc", position_columns)
ReverseDeltasCall(position_columns) ==
    /\ call = "none"
    /\ call' = "reverse_deltas"
    /\ columns' = position_columns
    /\ out' = reverse_deltas(spans, dtable, position_columns)
    /\ UNCHANGED <<spans, dtable, textVars, scalarVars>>

\* one iteration of the loop of regex_multisub_with_spans; when
\* regex_sub_with_spans raises, the exception leaves the function.
\* The rule lists are capped at MaxRules pairs, and a text that has grown
\* beyond MaxLen characters is not rewritten further.
MultisubStep(rule) ==
    /\ pc = "loop"
    /\ Len(rules) < MaxRules
    /\ Len(text) <= MaxLen
    /\ LET res == regex_sub_with_spans(rule.pattern, rule.replacement, text)
           sum == Add(deltas, res.deltas)
       IN  /\ rules' = Append(rules, rule)
           /\ IF res.err \/ sum.err
              THEN /\ pc' = "raised"
                   /\ UNCHANGED <<text, deltas, steps, touched, clean>>
              ELSE /\ pc' = "loop"
                   /\ text' = res.text
                   /\ deltas' = sum.val
                   /\ steps' = Append(steps, res.deltas)
                   /\ touched' = Retouch(touched, res.deltas, 1)
                   /\ clean' = (clean /\ OnlyUntouched(touched, res.deltas))
    /\ UNCHANGED <<original, batchVars, scalarVars>>

\* return text, deltas
MultisubReturn ==
    /\ pc = "loop"
    /\ pc' = "returned"
    /\ UNCHANGED <<original, text, deltas, rules, steps, touched, clean,
                   batchVars, scalarVars>>

\* a single call regex_sub_with_spans(pattern, replacement, original)
SubCall(rule) ==
    /\ pc = "loop"
    /\ rules = <<>>
    /\ LET res == regex_sub_with_spans(rule.pattern, rule.replacement, text)
       IN  /\ rules' = <<rule>>
           /\ IF res.err
              THEN /\ pc' = "raised"
                   /\ UNCHANGED <<text, deltas, steps, touched, clean>>
              ELSE /\ pc' = "returned"
                   /\ text' = res.text
                   /\ deltas' = res.deltas
                   /\ steps' = <<res.deltas>>
                   /\ touched' = Retouch(touched, res.deltas, 1)
                   /\ clean' = OnlyUntouched(touched, res.deltas)
    /\ UNCHANGED <<original, batchVars, scalarVars>>

Init == (\E t \in Texts : TextInit(t)) /\ NoBatch /\ NoScalar

Next ==
    \/ \E rule \in MultiRules : MultisubStep(rule)
    \/ MultisubReturn

Spec == Init /\ [][Next]_vars

InitSub == (\E t \in Texts \cup {FooBarFoo} : TextInit(t)) /\ NoBatch /\ NoScalar

NextSub == \E rule \in SubRules : SubCall(rule)

SpecSub == InitSub /\ [][NextSub]_vars

InitBatch ==
    /\ TextInit(<<>>)
    /\ NoScalar
    /\ \/ \E c \in Collections, b \in 0..MaxPos, e \in 0..MaxPos :
             b <= e /\ BatchInit(c, b, e)
       \/ ScenarioInit

NextBatch ==
    \/ \E cols \in ColumnChoices : ApplyDeltasCall(cols)
    \/ \E cols \in ColumnChoices : ReverseDeltasCall(cols)

SpecBatch == InitBatch /\ [][NextBatch]_vars

\* the collection of the scenario "foo bar foo", foo -> X
ScenarioCollection == DeltaCollection(<<0, 8>>, <<3, 11>>, <<-2, -2>>)

\* the DeltaCollection holding the intervals of c, in the order of c or,
\* as regex_sub_with_spans appends them, from right to left
Stored(c, backwards) ==
    LET n == Len(c)
        at(k) == IF backwards THEN c[n + 1 - k] ELSE c[k]
    IN  DeltaCollection([k \in 1..n |-> at(k).begin],
                        [k \in 1..n |-> at(k).end],
                        [k \in 1..n |-> at(k).delta])

\* the disjoint collections apply is called on
StoredCollections ==
    {Stored(c, b) : c \in Collections, b \in BOOLEAN} \cup {ScenarioCollection}

\* coll.apply(np.array([p]), side)
ApplyCall(p, side) ==
    /\ result = <<>>
    /\ args' = [positions |-> <<p>>, side |-> side]
    /\ result' = Apply(coll, <<p>>, side)
    /\ UNCHANGED <<coll, textVars, batchVars>>

InitApply ==
    /\ TextInit(<<>>)
    /\ NoBatch
    /\ coll \in StoredCollections
    /\ args = <<>>
    /\ result = <<>>

NextApply == \E p \in 0..(MaxPos + 1), side \in Sides : ApplyCall(p, side)

SpecApply == InitApply /\ [][NextApply]_vars

\* the running totals given to from_absolute
Totals == -2..2

RECURSIVE TotalsOfLen(_)
TotalsOfLen(n) ==
    IF n = 0 THEN {<<>>}
    ELSE {Append(c, x) : c \in TotalsOfLen(n - 1), x \in Totals}

\* DeltaCollection.from_absolute(begins, ends, c) for n intervals of the
\* given width, two offsets apart
FromAbsoluteCall(c, width) ==
    /\ result = <<>>
    /\ LET begins == [k \in 1..Len(c) |-> 2 * (k - 1)]
           ends   == [k \in 1..Len(c) |-> 2 * (k - 1) + width]
       IN  /\ args' = [begins |-> begins, ends |-> ends, deltas |-> c]
           /\ result' = from_absolute(begins, ends, c)
    /\ UNCHANGED <<coll, textVars, batchVars>>

InitAbsolute == TextInit(<<>>) /\ NoBatch /\ NoScalar

NextAbsolute ==
    \E n \in 0..(MaxIntervals + 1) :
        \E c \in TotalsOfLen(n), width \in 0..1 : FromAbsoluteCall(c, width)

SpecAbsolute == InitAbsolute /\ [][NextAbsolute]_vars

\* the characters of the texts given to run_unidecode
UnidecodeAlphabet == {"a", "U+00E9", "U+00E6", "U+E000"}

RECURSIVE UnidecodeTextsOfLen(_)
UnidecodeTextsOfLen(n) ==
    IF n = 0 THEN {<<>>}
    ELSE {Append(t, c) : t \in UnidecodeTextsOfLen(n - 1), c \in UnidecodeAlphabet}

\* new_text, deltas = run_unidecode(t)
RunUnidecodeCall(t) ==
    /\ result = <<>>
    /\ args' = [text |-> t]
    /\ result' = run_unidecode(t)
    /\ UNCHANGED <<coll, textVars, batchVars>>

InitUnidecode == TextInit(<<>>) /\ NoBatch /\ NoScalar

NextUnidecode ==
    \E n \in 0..MaxLen : \E t \in UnidecodeTextsOfLen(n) : RunUnidecodeCall(t)

SpecUnidecode == InitUnidecode /\ [][NextUnidecode]_vars

(***************************************************************************)
(* Properties of the scalar engine.                                        *)
(***************************************************************************)
NonEmpty(d) == Len(d.begins) > 0

\* p lies strictly inside an interval of d
StrictlyInside(d, p) ==
    \E i \in 1..Len(d.begins) : d.begins[i] < p /\ p < d.ends[i]

\* d.unapply(d.apply([p], side), side) returns [p]
RoundTrips(d, p, side) ==
    LET there == Apply(d, <<p>>, side)
    IN  /\ ~there.err
        /\ Unapply(d, there.val, side) = Returned(<<p>>)

RECURSIVE ApplyInTurn(_, _, _, _)
\* cs[i].apply(... cs[2].apply(cs[1].apply(positions, side), side) ...)
ApplyInTurn(cs, i, positions, side) ==
    IF i = 0 THEN Returned(positions)
    ELSE LET before == ApplyInTurn(cs, i - 1, positions, side)
         IN  IF before.err THEN Raised ELSE Apply(cs[i], before.val, side)

\* C1: for the collection d a substitution of text T returned, every
\* position p of 0..len(T) not strictly inside an interval and both sides,
\* d.unapply(d.apply(p, side), side) == p.
C1_RoundTrip ==
    pc = "returned" =>
        \A p \in 0..Len(original), side \in Sides :
            ~StrictlyInside(deltas, p) => RoundTrips(deltas, p, side)

\* C2: the running collection maps every position of the original text as
\* applying the collections of the rules one after the other does, whenever
\* each of them is non-empty (two rules: (a + b).apply(p) ==
\* b.apply(a.apply(p))).
C2_ComposeIsSequential ==
    (Len(steps) >= 2 /\ \A i \in 1..Len(steps) : NonEmpty(steps[i])) =>
        \A p \in 0..Len(original), side \in Sides :
            Apply(deltas, <<p>>, side) = ApplyInTurn(steps, Len(steps), <<p>>, side)

\* C5: the returned collection maps the length of the input text to the
\* length of the returned text: d.apply(len(T), 'left') == len(T').
C5_LengthConsistency ==
    pc = "returned" =>
        Apply(deltas, <<Len(original)>>, "left") = Returned(<<Len(text)>>)

\* (a + b) + c and a + (b + c)
LeftSum(a, b, c) ==
    LET ab == Add(a, b) IN IF ab.err THEN Raised ELSE Add(ab.val, c)

RightSum(a, b, c) ==
    LET bc == Add(b, c) IN IF bc.err THEN Raised ELSE Add(a, bc.val)

\* two collections map position p alike
SameMapping(x, y, p, side) ==
    /\ ~x.err
    /\ ~y.err
    /\ Apply(x.val, <<p>>, side) = Apply(y.val, <<p>>, side)

\* every interval of d covers at least one character
RewritesText(d) ==
    NonEmpty(d) /\ \A i \in 1..Len(d.begins) : d.begins[i] < d.ends[i]

\* C6: for three edits in a row, each rewriting only text no earlier one
\* produced, (a + b) + c and a + (b + c) map every position of the original
\* text alike, for both sides.
C6_Associative ==
    (Len(steps) = 3 /\ clean /\ \A i \in 1..3 : RewritesText(steps[i])) =>
        \A p \in 0..Len(original), side \in Sides :
            SameMapping(LeftSum(steps[1], steps[2], steps[3]),
                        RightSum(steps[1], steps[2], steps[3]), p, side)

\* C7: a collection with no interval, as a substitution without a match
\* returns, maps every position to itself under apply and unapply, as a
\* normal result.
C7_EmptyIsIdentity ==
    (pc = "returned" /\ ~NonEmpty(deltas)) =>
        \A p \in 0..Len(original), side \in Sides :
            /\ Apply(deltas, <<p>>, side) = Returned(<<p>>)
            /\ Unapply(deltas, <<p>>, side) = Returned(<<p>>)

RECURSIVE Rewritten(_, _, _, _, _)
\* source with its matches k..Len(matches) replaced, read left to right
\* from offset `from`: the text between two matches is copied unchanged
Rewritten(replacement, source, matches, k, from) ==
    IF k > Len(matches) THEN Slice(source, from, Len(source))
    ELSE Slice(source, from, matches[k].start)
         \o Middle(replacement, source, matches[k])
         \o Rewritten(replacement, source, matches, k + 1, matches[k].end)

\* d holds interval (begin, end, delta)
Holds(d, begin, end, delta) ==
    \E i \in 1..Len(d.begins) :
        d.begins[i] = begin /\ d.ends[i] = end /\ d.deltas[i] = delta

\* C10: regex_sub_with_spans returns the text with every match replaced by
\* its replacement text and the rest unchanged, and one interval per match:
\* the match's (start, end) in the original text and the delta
\* len(replacement text) - (end - start).  "foo bar foo" with foo -> X gives
\* "X bar X", the intervals (0,3,-2) and (8,11,-2), and apply(8, left) = 6.
C10_SubRecordsOriginalSpans ==
    (pc = "returned" /\ Len(rules) = 1) =>
        LET rule    == rules[1]
            matches == FindIter(rule.pattern, original)
        IN  /\ text = Rewritten(rule.replacement, original, matches, 1, 0)
            /\ Len(deltas.begins) = Len(matches)
            /\ \A k \in 1..Len(matches) :
                  Holds(deltas, matches[k].start, matches[k].end,
                        Len(Middle(rule.replacement, original, matches[k]))
                            - (matches[k].end - matches[k].start))
            /\ (original = FooBarFoo /\ rule = FooRule) =>
                  /\ text = <<"X", " ", "b", "a", "r", " ", "X">>
                  /\ Len(deltas.begins) = 2
                  /\ Holds(deltas, 0, 3, -2)
                  /\ Holds(deltas, 8, 11, -2)
                  /\ Apply(deltas, <<8>>, "left") = Returned(<<6>>)

\* the scenario "foo bar foo", foo -> X has been run
C10_Witness ==
    /\ pc = "returned"
    /\ original = FooBarFoo
    /\ rules = <<FooRule>>
    /\ Len(deltas.begins) = 2

(***************************************************************************)
(* Back-references and malformed rules.                                    *)
(***************************************************************************)
RECURSIVE ResolvedByNumber(_, _, _, _)
\* the replacement read from 1-based index i on, every \k standing for the
\* text group k of the match captured
ResolvedByNumber(replacement, source, match, i) ==
    IF i > Len(replacement) THEN <<>>
    ELSE IF replacement[i] = "\\" /\ DigitRun(replacement, i + 1) > 0
    THEN LET n == DigitRun(replacement, i + 1)
         IN  MatchGroup(source, match, IntOf(SubSeq(replacement, i + 1, i + n)))
             \o ResolvedByNumber(replacement, source, match, i + n + 1)
    ELSE <<replacement[i]>> \o ResolvedByNumber(replacement, source, match, i + 1)

RECURSIVE RewrittenByNumber(_, _, _, _, _)
\* source with its matches k..Len(matches) replaced by ResolvedByNumber
RewrittenByNumber(replacement, source, matches, k, from) ==
    IF k > Len(matches) THEN Slice(source, from, Len(source))
    ELSE Slice(source, from, matches[k].start)
         \o ResolvedByNumber(replacement, source, matches[k], 1)
         \o RewrittenByNumber(replacement, source, matches, k + 1, matches[k].end)

\* the rule of a single call refers to groups the pattern has, at least one
RefersToGroups(rule) ==
    /\ NeededGroups(rule.replacement) # <<>>
    /\ ~NoSuchGroup(rule.pattern, NeededGroups(rule.replacement))

\* C11: in regex_sub_with_spans every \k of the replacement is replaced by
\* the text group k of the match captured, in any order of the references,
\* with or without the lower-numbered groups, also when repeated, and the
\* recorded delta is the length change of that replacement text.
C11_BackRefsByGroupNumber ==
    (pc = "returned" /\ Len(rules) = 1 /\ RefersToGroups(rules[1])) =>
        LET rule    == rules[1]
            matches == FindIter(rule.pattern, original)
        IN  /\ text = RewrittenByNumber(rule.replacement, original, matches, 1, 0)
            /\ \A k \in 1..Len(matches) :
                  Holds(deltas, matches[k].start, matches[k].end,
                        Len(ResolvedByNumber(rule.replacement, original, matches[k], 1))
                            - (matches[k].end - matches[k].start))

\* the rule refers to a group the pattern does not have
Malformed(rule) == NoSuchGroup(rule.pattern, NeededGroups(rule.replacement))

\* C12: regex_sub_with_spans called with a replacement that refers to a
\* group the pattern does not have ends in an error, whether or not the
\* pattern matches the text, and returns neither a text nor a collection.
C12_MalformedRuleRaises ==
    (Len(rules) = 1 /\ Malformed(rules[1])) =>
        /\ pc = "raised"
        /\ text = original
        /\ deltas = EmptyCollection

\* begin <= end for every interval of d
BeginBeforeEnd(d) == \A i \in 1..Len(d.begins) : d.begins[i] <= d.ends[i]

\* the intervals of d are mutually disjoint
Disjoint(d) ==
    \A i, j \in 1..Len(d.begins) :
        i # j => (d.ends[i] <= d.begins[j] \/ d.ends[j] <= d.begins[i])

\* the intervals of d are stored in ascending (begin, end) order
Ascending(d) ==
    \A i, j \in 1..Len(d.begins) :
        i < j => ~LexLess(d.begins[j], d.ends[j], d.begins[i], d.ends[i])

WellFormed(d) == BeginBeforeEnd(d) /\ Disjoint(d) /\ Ascending(d)

\* C13: the collection regex_multisub_with_spans holds after any number of
\* rules (one rule: the collection regex_sub_with_spans returned) has
\* begin <= end for every interval, mutually disjoint intervals, and its
\* intervals in ascending (begin, end) order.
C13_WellFormed == pc # "raised" => WellFormed(deltas)

\* the sum of the deltas of the intervals of d that end at or before offset x
DeltasEndingBy(d, x) ==
    SumTo([j \in 1..Len(d.begins) |-> IF d.ends[j] <= x THEN d.deltas[j] ELSE 0],
          Len(d.begins))

\* C14: for a disjoint collection and a position p with begin_i < p < end_i,
\* apply(p, left) is begin_i plus the deltas of the intervals lying entirely
\* before interval i, and apply(p, right) is end_i + delta_i plus that sum;
\* [(0,3,-2), (8,11,-2)] maps 1 to 0 (left) and to 1 (right).  A position
\* strictly inside no interval is shifted by the deltas of the intervals
\* with end <= p.
C14_SnapRule ==
    result # <<>> =>
        LET p    == args.positions[1]
            here == {i \in 1..Len(coll.begins) :
                        coll.begins[i] < p /\ p < coll.ends[i]}
        IN  /\ \A i \in here :
                  /\ args.side = "left" =>
                        result = Returned(<<coll.begins[i]
                                            + DeltasEndingBy(coll, coll.begins[i])>>)
                  /\ args.side = "right" =>
                        result = Returned(<<coll.ends[i] + coll.deltas[i]
                                            + DeltasEndingBy(coll, coll.begins[i])>>)
            /\ here = {} => result = Returned(<<p + DeltasEndingBy(coll, p)>>)
            /\ (coll = ScenarioCollection /\ p = 1) =>
                  result = Returned(<<IF args.side = "left" THEN 0 ELSE 1>>)

RECURSIVE RunningSum(_, _)
\* d[1] + ... + d[i]
RunningSum(d, i) == IF i = 0 THEN 0 ELSE d[i] + RunningSum(d, i - 1)

\* C15: from_absolute returns a collection with the begins and ends it was
\* given and the deltas d[0] = c[0], d[i] = c[i] - c[i-1], whose running
\* sum is c, for every sequence c of running totals.
C15_FromAbsolute ==
    (result # <<>> /\ "deltas" \in DOMAIN args) =>
        /\ ~result.err
        /\ LET c == args.deltas
               d == result.val
           IN  /\ d.begins = args.begins
               /\ d.ends = args.ends
               /\ Len(d.deltas) = Len(c)
               /\ \A i \in 1..Len(c) :
                     /\ d.deltas[i] = (IF i = 1 THEN c[1] ELSE c[i] - c[i - 1])
                     /\ RunningSum(d.deltas, i) = c[i]

RECURSIVE Transliterated(_, _)
\* the transliterations of the first i characters of t, concatenated
Transliterated(t, i) ==
    IF i = 0 THEN <<>> ELSE Transliterated(t, i - 1) \o unidecode(t[i])

\* C16: run_unidecode returns the concatenated transliterations and one
\* interval [i, i+1) with delta len(new_form) - 1 for each character whose
\* transliteration has a length other than 1, none for the others, and
\* apply(i, left) is the offset of the transliteration of character i in
\* the new text, for every i of 0..len(text).
C16_UnidecodeOffsets ==
    (result # <<>> /\ "text" \in DOMAIN args) =>
        LET t == args.text
            d == result.deltas
            changed == {i \in 0..(Len(t) - 1) : Len(unidecode(t[i + 1])) # 1}
        IN  /\ result.text = Transliterated(t, Len(t))
            /\ Len(d.begins) = Cardinality(changed)
            /\ \A i \in changed :
                  Holds(d, i, i + 1, Len(unidecode(t[i + 1])) - 1)
            /\ \A i \in 0..Len(t) :
                  Apply(d, <<i>>, "left") = Returned(<<Len(Transliterated(t, i))>>)

\* C17: for the text T' and the collection d regex_multisub_with_spans
\* returns for a text T, every 0 <= b <= e <= len(T) satisfies
\* 0 <= d.apply(b, left) <= d.apply(e, right) <= len(T').
C17_MappedSpansValid ==
    pc = "returned" =>
        \A b \in 0..Len(original), e \in 0..Len(original) :
            b <= e =>
                LET begin == Apply(deltas, <<b>>, "left")
                    end   == Apply(deltas, <<e>>, "right")
                IN  /\ ~begin.err
                    /\ ~end.err
                    /\ 0 <= begin.val[1]
                    /\ begin.val[1] <= end.val[1]
                    /\ end.val[1] <= Len(text)

(***************************************************************************)
(* Properties of the batch transformer.                                    *)
(***************************************************************************)
\* the DeltaCollection of the rows of the delta table of one document
GroupCollection(doc) ==
    LET rows == SelectSeq(dtable, LAMBDA r : r.doc = doc)
    IN  DeltaCollection([i \in 1..Len(rows) |-> rows[i].begin],
                        [i \in 1..Len(rows) |-> rows[i].end],
                        [i \in 1..Len(rows) |-> rows[i].delta])

HasRows(doc) == NonEmpty(GroupCollection(doc))

\* p lies strictly inside an interval of d as unapply maps them
StrictlyInsideMapped(d, p) ==
    LET begins == Apply(d, d.begins, "left")
        ends   == Apply(d, d.ends, "right")
    IN  \E i \in 1..Len(d.begins) : begins.val[i] < p /\ p < ends.val[i]

\* C3: for every span of a group that has delta rows, apply_deltas returns
\* in each position column the value DeltaCollection.apply gives for the
\* group's intervals and the column's side.
C3_BatchEqualsScalarApply ==
    call = "apply_deltas" =>
        \A i \in 1..Len(spans) :
            HasRows(spans[i].doc) =>
                LET d == GroupCollection(spans[i].doc)
                IN  /\ Apply(d, <<spans[i].begin>>, columns.begin)
                          = Returned(<<out[i].begin>>)
                    /\ Apply(d, <<spans[i].end>>, columns.end)
                          = Returned(<<out[i].end>>)

\* C4: for every span of a group that has delta rows, reverse_deltas returns
\* in each position column the value DeltaCollection.unapply gives for the
\* group's intervals and the column's side.
C4_BatchEqualsScalarUnapply ==
    call = "reverse_deltas" =>
        \A i \in 1..Len(spans) :
            HasRows(spans[i].doc) =>
                LET d == GroupCollection(spans[i].doc)
                IN  /\ Unapply(d, <<spans[i].begin>>, columns.begin)
                          = Returned(<<out[i].begin>>)
                    /\ Unapply(d, <<spans[i].end>>, columns.end)
                          = Returned(<<out[i].end>>)

\* the scalar value for one column of a span whose group has rows
ScalarValue(d, p, side) ==
    IF call = "apply_deltas" THEN Apply(d, <<p>>, side)
                             ELSE Unapply(d, <<p>>, side)

\* p is strictly inside no interval of the mapping the call computes
OutsideAll(d, p) ==
    IF call = "apply_deltas" THEN ~StrictlyInside(d, p)
                             ELSE ~StrictlyInsideMapped(d, p)

\* C8: apply_deltas and reverse_deltas return a span whose group has no row
\* in the delta table with its position columns unchanged, and in the same
\* call remap the spans of the groups that have rows (checked at the
\* positions strictly inside no interval, where the remap is the scalar one).
C8_MissingGroupIsIdentity ==
    call # "none" =>
        /\ Len(out) = Len(spans)
        /\ \A i \in 1..Len(spans) :
              IF HasRows(spans[i].doc)
              THEN LET d == GroupCollection(spans[i].doc)
                   IN  /\ OutsideAll(d, spans[i].begin) =>
                             ScalarValue(d, spans[i].begin, columns.begin)
                                 = Returned(<<out[i].begin>>)
                       /\ OutsideAll(d, spans[i].end) =>
                             ScalarValue(d, spans[i].end, columns.end)
                                 = Returned(<<out[i].end>>)
              ELSE out[i] = spans[i]

\* a call returned a span of a group without rows next to a span it moved
C8_Witness ==
    /\ call # "none"
    /\ \E i \in 1..Len(spans) : ~HasRows(spans[i].doc) /\ spans[i].end > 0
    /\ \E i \in 1..Len(spans) : HasRows(spans[i].doc) /\ out[i] # spans[i]

InScenario ==
    /\ call = "apply_deltas"
    /\ spans = ScenarioSpans
    /\ dtable = ScenarioDeltas
    /\ columns = DefaultColumns

\* C9 as stated: the scenario's span (8, 11) is returned as (6, 9), the
\* scalar (apply(8, left), apply(11, right)).
C9_ScenarioAsStated ==
    InScenario =>
        /\ out[1].begin = 6
        /\ out[1].end = 9
        /\ Apply(GroupCollection("d1"), <<8>>, "left") = Returned(<<out[1].begin>>)
        /\ Apply(GroupCollection("d1"), <<11>>, "right") = Returned(<<out[1].end>>)

\* C9 with the end the new text "X bar X" has: the scenario's span (8, 11)
\* is returned as (6, 7), the scalar (apply(8, left), apply(11, right)).
C9_ScenarioAmended ==
    InScenario =>
        /\ out[1].begin = 6
        /\ out[1].end = 7
        /\ Apply(GroupCollection("d1"), <<8>>, "left") = Returned(<<out[1].begin>>)
        /\ Apply(GroupCollection("d1"), <<11>>, "right") = Returned(<<out[1].end>>)

\* apply_deltas has returned the scenario's one span
C9_Witness == InScenario /\ Len(out) = 1 /\ out[1].doc = "d1"

====
